---- MODULE Spec2Model ----
(***************************************************************************)
(* Model of check_oil_level.py: the percentage extractor                   *)
(* (parse_percentage) and the reading pipeline (main and the functions it  *)
(* calls: get_camera_snapshot, analyze_oil_gauge, log_reading,             *)
(* send_alert_email).                                                      *)
(*                                                                         *)
(* A text is a sequence of tokens.  Every token is one character of the    *)
(* Python string, except LABEL, which stands for the eleven characters of  *)
(* the literal "Percentage:" that the first pattern is anchored to.        *)
(***************************************************************************)
EXTENDS Integers, Sequences, FiniteSets, TLC

\* ------------------------------------------------------------------ bounds
\* Longest text over the whole alphabet handed to parse_percentage.
MaxLen == 4
\* Longest text over the symbols of the patterns handed to parse_percentage.
MaxCoreLen == 7
\* Longest response text the inference service returns in a pipeline run.
MaxRespLen == 4

\* --------------------------------------------------------------- constants
ALERT_THRESHOLD == 25

LABEL == "Percentage:"
Digits == {"0", "1", "2", "5", "8"}
Alphabet == {LABEL, " ", "-", "%", "x"} \cup Digits

\* The symbols the patterns are made of, with two digits.
CoreAlphabet == {LABEL, "-", "%", "1", "2"}

SeqsUpTo(A, n) == UNION {[1..k -> A] : k \in 0..n}

\* The inputs of parse_percentage: every short text, and every longer text
\* made of the patterns' own symbols (long enough for two occurrences).
Texts == SeqsUpTo(Alphabet, MaxLen) \cup SeqsUpTo(CoreAlphabet, MaxCoreLen)

\* The stubbed response of the end-to-end scenario: "Percentage: 18%".
Response18 == <<LABEL, " ", "1", "8", "%">>

\* The response texts of a pipeline run: every short text and the stub.
Responses == SeqsUpTo(Alphabet, MaxRespLen) \cup {Response18}

\* Python's None and a present value.
None == [none |-> TRUE]
Some(v) == [none |-> FALSE, val |-> v]

VARIABLES
    \* --- parse_percentage called on its own
    result_text,      \* the argument of parse_percentage
    parsed,           \* Pending, or Returned(r) with r the value returned
    \* --- configuration read from the environment at import
    cfg,
    \* --- main()
    pc,               \* position of main
    image_data,       \* value returned by get_camera_snapshot
    snapshot_saved,   \* oil_snapshot_<ts>.jpg written by main
    result,           \* the three values returned by analyze_oil_gauge
    percentage,
    processed_path,
    frames,           \* [inference, processed_file]: the image handed to the
                      \* inference service, the image in processed_<ts>.jpg
    reported,         \* the closing message main printed, "" while none
    \* --- the world outside
    log_file,         \* LOG_FILE: [exists, rows]
    emails,           \* the send_alert_email calls, in order
    calls,            \* how often each external operation was attempted
    \* --- main() invoked again and again
    runs,             \* invocations of main that have ended
    history,          \* what each of them parsed, in run order
    \* --- log_reading called on its own
    log_call,         \* [percentage, raw_result, done]
    \* --- process_image called on its own
    image_call,       \* [img, the five arguments, done, out]
    \* --- reduce_glare called on its own
    glare_call,       \* [img, done, out]
    \* --- send_alert_email called on its own
    email_call,       \* [the arguments, the SMTP settings, done, out]
    \* --- the test scripts that call analyze_oil_gauge
    script_call,      \* [image_data, done, out]
    \* --- two invocations of log_reading at once
    writers           \* of each: its step, its file_exists, its row

\* The variables of the operations that are called on their own.
aux_vars == <<runs, history, log_call, image_call, glare_call, email_call,
              script_call, writers>>

vars == <<result_text, parsed, cfg, pc, image_data, snapshot_saved, result,
          percentage, processed_path, frames, reported, log_file, emails,
          calls, aux_vars>>

pipeline_vars == <<cfg, pc, image_data, snapshot_saved, result, percentage,
                   processed_path, frames, reported, log_file, emails, calls>>

pipeline_vars_but_log == <<cfg, pc, image_data, snapshot_saved, result,
                           percentage, processed_path, frames, reported,
                           emails, calls>>

\* ------------------------------------------------------ parse_percentage
IsDigit(c) == c \in Digits
IsSpace(c) == c \in {" ", "\n", "\t", "\r"}

DigitVal(c) ==
    CASE c = "0" -> 0 [] c = "1" -> 1 [] c = "2" -> 2 [] c = "3" -> 3
      [] c = "4" -> 4 [] c = "5" -> 5 [] c = "6" -> 6 [] c = "7" -> 7
      [] c = "8" -> 8 [] c = "9" -> 9

Min(S) == CHOOSE x \in S : \A y \in S : x <= y

\* int() of the digits t[a..b].
RECURSIVE ToInt(_, _, _)
ToInt(t, a, b) ==
    IF a > b THEN 0 ELSE ToInt(t, a, b - 1) * 10 + DigitVal(t[b])

\* Last position of the longest run of digits (\d+, greedy) that starts at
\* j; j - 1 when t[j] is no digit.
DigitRunEnd(t, j) ==
    CHOOSE k \in (j - 1)..Len(t) :
        /\ \A m \in j..k : IsDigit(t[m])
        /\ (k = Len(t) \/ ~IsDigit(t[k + 1]))

\* Last position of the longest run of whitespace (\s*, greedy) from j.
SpaceRunEnd(t, j) ==
    CHOOSE k \in (j - 1)..Len(t) :
        /\ \A m \in j..k : IsSpace(t[m])
        /\ (k = Len(t) \/ ~IsSpace(t[k + 1]))

\* The two regular expressions, in list order:
\*   Percentage:\s*(\d+)(?:-(\d+))?%    label, range group optional
\*   (\d+)(?:-(\d+))%                   no label, range group required
\* (variant: the bare pattern tried first)
patterns_swapped ==
    << [label |-> FALSE, range_optional |-> FALSE],
       [label |-> TRUE,  range_optional |-> TRUE] >>

patterns ==
    << [label |-> TRUE,  range_optional |-> TRUE],
       [label |-> FALSE, range_optional |-> FALSE] >>

NoMatch == [ok |-> FALSE]

\* The match of pattern p that starts at position i of t, or NoMatch.
\* A shorter first digit run never helps: it is followed by a digit, and
\* the pattern wants "-" or "%" there, so the greedy run is the only one.
MatchAt(p, t, i) ==
    LET labelled == p.label
        d1 == IF labelled THEN SpaceRunEnd(t, i + 1) + 1 ELSE i
        e1 == DigitRunEnd(t, d1)
        d2 == e1 + 2
        e2 == IF e1 + 1 <= Len(t) /\ t[e1 + 1] = "-"
                THEN DigitRunEnd(t, d2) ELSE d2 - 1
        ranged == /\ e1 + 1 <= Len(t) /\ t[e1 + 1] = "-"
                  /\ e2 >= d2
                  /\ e2 + 1 <= Len(t) /\ t[e2 + 1] = "%"
        single == /\ p.range_optional
                  /\ e1 + 1 <= Len(t) /\ t[e1 + 1] = "%"
    IN  IF (labelled /\ t[i] # LABEL) \/ e1 < d1 THEN NoMatch
        ELSE IF ranged
            THEN [ok |-> TRUE, start |-> i, group1 |-> <<d1, e1>>,
                  group2 |-> <<d2, e2>>, has2 |-> TRUE]
        ELSE IF single
            THEN [ok |-> TRUE, start |-> i, group1 |-> <<d1, e1>>,
                  group2 |-> <<0, 0>>, has2 |-> FALSE]
        ELSE NoMatch

\* re.search: the match at the leftmost position where the pattern matches.
re_search(p, t) ==
    LET starts == {i \in 1..Len(t) : MatchAt(p, t, i).ok}
    IN  IF starts = {} THEN NoMatch ELSE MatchAt(p, t, Min(starts))

\* (variant: the lower end of a range)
match_value_lower(t, m) == ToInt(t, m.group1[1], m.group1[2])

\* The body of the `if match:` branch: upper end of a range, else the
\* single number.
match_value(t, m) ==
    IF m.has2 THEN ToInt(t, m.group2[1], m.group2[2])
    ELSE ToInt(t, m.group1[1], m.group1[2])

\* (variant: zero as the default)
no_match_zero == Some(0)

\* What the function returns when the loop over the patterns ends.
no_match_value == None

parse_percentage(t) ==
    LET hits == {k \in 1..Len(patterns) : re_search(patterns[k], t).ok}
    IN  IF hits = {} THEN no_match_value
        ELSE Some(match_value(t, re_search(patterns[Min(hits)], t)))

\* ----------------------------------------------------------------- state
Idle ==
    /\ pc = "start"
    /\ image_data = None
    /\ snapshot_saved = FALSE
    /\ result = None
    /\ percentage = None
    /\ processed_path = None
    /\ frames = [inference |-> None, processed_file |-> None]
    /\ reported = ""
    /\ emails = <<>>
    /\ calls = [camera_fetch |-> 0, transform |-> 0, inference |-> 0,
                log_append |-> 0, email_send |-> 0]

\* No invocation has ended and no operation was called on its own.
NotCalled ==
    /\ runs = 0
    /\ history = <<>>
    /\ log_call = [done |-> FALSE]
    /\ image_call = [done |-> FALSE]
    /\ glare_call = [done |-> FALSE]
    /\ email_call = [done |-> FALSE]
    /\ script_call = [done |-> FALSE]
    /\ writers = <<>>

Pending == [done |-> FALSE]
Returned(r) == [done |-> TRUE, value |-> r]

\* parse_percentage on its own, on any of the texts.
InitParse ==
    /\ result_text \in Texts
    /\ parsed = Pending
    /\ cfg = [UNIFI_HOST |-> TRUE, UNIFI_API_KEY |-> TRUE, CAMERA_ID |-> TRUE,
              ANTHROPIC_API_KEY |-> TRUE]
    /\ log_file = [exists |-> FALSE, rows |-> <<>>]
    /\ Idle
    /\ NotCalled

ParsePercentage ==
    /\ parsed = Pending
    /\ parsed' = Returned(parse_percentage(result_text))
    /\ UNCHANGED <<result_text, pipeline_vars, aux_vars>>

NextParse == ParsePercentage

SpecParse == InitParse /\ [][NextParse]_vars

\* -------------------------------------------------------------- pipeline
\* Python truthiness of a value that is None, bytes or str: `not v`.
Falsy(v) == v.none \/ v.val = <<>>

\* A response body: no bytes, bytes that are no image, an encoded image.
Bodies == {<<>>, <<"garbage">>, <<"jpeg">>}

\* What requests.get does: it raises (timeout, connection error) or it
\* returns a response with a status code and a body.
CameraReplies ==
    {[raised |-> TRUE]} \cup
    {[raised |-> FALSE, status_code |-> s, content |-> b] :
        s \in {200, 401}, b \in Bodies}

\* What client.messages.create does: it raises, or it returns a response
\* whose content list is empty or starts with a text block.
InferenceReplies ==
    {[raised |-> TRUE], [raised |-> FALSE, content |-> <<>>]} \cup
    {[raised |-> FALSE, content |-> <<t>>] : t \in Responses}

HeaderRow == [kind |-> "header"]
ReadingRow(p, path, raw) ==
    [kind |-> "reading", Percentage |-> p, Snapshot |-> path,
     RawResult |-> raw]

\* The log file before the run: absent, or written by an earlier run.
EarlierLog ==
    << HeaderRow,
       ReadingRow(50, "oil_snapshot_earlier.jpg", <<LABEL, "5", "0", "%">>) >>

SNAPSHOT_FILE == "oil_snapshot_now.jpg"
PROCESSED_FILE == "processed_now.jpg"

\* str.replace("\n", " ")
Flatten(t) == [i \in 1..Len(t) |-> IF t[i] = "\n" THEN " " ELSE t[i]]

Init ==
    /\ result_text = <<>>
    /\ parsed = Pending
    /\ cfg \in [UNIFI_HOST : BOOLEAN, UNIFI_API_KEY : BOOLEAN,
                CAMERA_ID : BOOLEAN, ANTHROPIC_API_KEY : BOOLEAN]
    /\ log_file \in {[exists |-> FALSE, rows |-> <<>>],
                     [exists |-> TRUE, rows |-> EarlierLog]}
    /\ Idle
    /\ NotCalled

\* (variant: any() in place of all())
unifi_configured_any(c) == c.UNIFI_HOST \/ c.UNIFI_API_KEY \/ c.CAMERA_ID

\* get_camera_snapshot: all([UNIFI_HOST, UNIFI_API_KEY, CAMERA_ID])
unifi_configured(c) == c.UNIFI_HOST /\ c.UNIFI_API_KEY /\ c.CAMERA_ID

\* get_camera_snapshot(), called by main.
GetCameraSnapshot ==
    /\ pc = "start"
    /\ IF ~unifi_configured(cfg)
         THEN /\ image_data' = None
              /\ calls' = calls
         ELSE /\ calls' = [calls EXCEPT !.camera_fetch = @ + 1]
              /\ \E reply \in CameraReplies :
                    image_data' =
                        IF reply.raised THEN None
                        ELSE IF reply.status_code # 200 THEN None
                        ELSE Some(reply.content)
    /\ pc' = "check_snapshot"
    /\ UNCHANGED <<aux_vars, frames, result_text, parsed, cfg, snapshot_saved, result, percentage,
                   processed_path, reported, log_file, emails>>

\* (variant: `if image_data is None`)
snapshot_missing_none_only(data) == data.none

\* main's test of the snapshot: `not image_data`.
snapshot_missing(data) == Falsy(data)

\* (variant: a failed fetch is tried again)
MainCheckSnapshot_retry ==
    /\ pc = "check_snapshot"
    /\ IF snapshot_missing(image_data)
         THEN /\ reported' = "Failed to get camera snapshot"
              /\ pc' = "start"
              /\ snapshot_saved' = snapshot_saved
         ELSE /\ snapshot_saved' = TRUE
              /\ pc' = "analyze"
              /\ reported' = reported
    /\ UNCHANGED <<aux_vars, frames, result_text, parsed, cfg, image_data, result, percentage,
                   processed_path, log_file, emails, calls>>

\* main: `if not image_data: ... return`, else save the snapshot.
MainCheckSnapshot ==
    /\ pc = "check_snapshot"
    /\ IF snapshot_missing(image_data)
         THEN /\ reported' = "Failed to get camera snapshot"
              /\ pc' = "done"
              /\ snapshot_saved' = snapshot_saved
         ELSE /\ snapshot_saved' = TRUE
              /\ pc' = "analyze"
              /\ reported' = reported
    /\ UNCHANGED <<aux_vars, frames, result_text, parsed, cfg, image_data, result, percentage,
                   processed_path, log_file, emails, calls>>

\* analyze_oil_gauge: crop_box = (700, 650, 1300, 1600)
CROP_BOX == <<700, 650, 1300, 1600>>

\* What process_image returns there: a JPEG of quality 95 of the size of
\* the crop box.
ProcessedFrame ==
    [size |-> <<CROP_BOX[3] - CROP_BOX[1], CROP_BOX[4] - CROP_BOX[2]>>,
     quality |-> 95]

\* process_image with the fixed configuration of analyze_oil_gauge:
\* Image.open raises on bytes that are no image; on an image every step
\* (rotate, crop, reduce_glare, save) returns.
process_image(data) ==
    IF data = <<"jpeg">> THEN [raised |-> FALSE, image |-> ProcessedFrame]
    ELSE [raised |-> TRUE]

\* (variant: the processed image is saved as it is)
resize_for_email_full(im) == im

\* analyze_oil_gauge: the copy saved "for email": half the width and half
\* the height (LANCZOS), JPEG quality 90.
resize_for_email(im) ==
    [size |-> <<im.size[1] \div 2, im.size[2] \div 2>>, quality |-> 90]

\* analyze_oil_gauge(image_data): what it returns, or that it raised,
\* the inference service answering with reply.  process_image runs before
\* the try block, so what it raises leaves analyze_oil_gauge.  Every
\* return statement gives three values.
analyze_oil_gauge(key, data, reply) ==
    IF ~key
      THEN [raised |-> FALSE, transformed |-> FALSE, asked |-> FALSE,
            value |-> <<None, None, None>>]
    ELSE IF process_image(data).raised
      THEN [raised |-> TRUE, transformed |-> TRUE, asked |-> FALSE]
    ELSE IF reply.raised \/ reply.content = <<>>
      THEN [raised |-> FALSE, transformed |-> TRUE, asked |-> TRUE,
            value |-> <<None, None, None>>]
    ELSE [raised |-> FALSE, transformed |-> TRUE, asked |-> TRUE,
          value |-> <<Some(reply.content[1]),
                      parse_percentage(reply.content[1]),
                      Some(PROCESSED_FILE)>>]

\* What a call of analyze_oil_gauge can come to, over the replies of the
\* inference service.
AnalyzeOutcomes ==
    [key \in BOOLEAN, data \in Bodies |->
        {analyze_oil_gauge(key, data, reply) : reply \in InferenceReplies}]

\* main: result, percentage, processed_path = analyze_oil_gauge(image_data).
\* What process_image raises leaves main too, which has no handler.
AnalyzeOilGauge ==
    /\ pc = "analyze"
    /\ \E r \in AnalyzeOutcomes[cfg.ANTHROPIC_API_KEY, image_data.val] :
          /\ IF r.raised
               THEN /\ pc' = "raised"
                    /\ UNCHANGED <<result, percentage, processed_path,
                                   frames>>
               ELSE /\ pc' = "check_result"
                    /\ result' = r.value[1]
                    /\ percentage' = r.value[2]
                    /\ processed_path' = r.value[3]
                    /\ frames' =
                          IF r.asked
                            THEN [inference |->
                                    Some(process_image(image_data.val).image),
                                  processed_file |->
                                    Some(resize_for_email(
                                      process_image(image_data.val).image))]
                            ELSE frames
          /\ calls' = [calls EXCEPT
                !.transform = IF r.transformed THEN @ + 1 ELSE @,
                !.inference = IF r.asked THEN @ + 1 ELSE @]
    /\ UNCHANGED <<aux_vars, result_text, parsed, cfg, image_data, snapshot_saved,
                   reported, log_file, emails>>

\* (variant: `if percentage:`)
has_percentage_truthy(p) == ~p.none /\ p.val # 0

\* main's test of the parsed percentage: `percentage is not None`.
has_percentage(p) == ~p.none

\* (variant: `if result is None`)
analysis_failed_none_only(r) == r.none

\* main's test of the analysis: `not result`.
analysis_failed(r) == Falsy(r)

\* main: `if not result: ... return`, then the branch on the percentage.
MainCheckResult ==
    /\ pc = "check_result"
    /\ IF analysis_failed(result)
         THEN /\ reported' = "Failed to analyze oil gauge"
              /\ pc' = "done"
         ELSE IF has_percentage(percentage)
         THEN /\ reported' = reported
              /\ pc' = "log"
         ELSE /\ reported' = "Could not parse percentage from result"
              /\ pc' = "done"
    /\ UNCHANGED <<aux_vars, frames, result_text, parsed, cfg, image_data, snapshot_saved, result,
                   percentage, processed_path, log_file, emails, calls>>

\* (variant: the header is written on every call)
log_reading_always_header(file, p, raw, path) ==
    [exists |-> TRUE,
     rows |-> file.rows \o <<HeaderRow, ReadingRow(p, path, Flatten(raw))>>]

\* log_reading(percentage, raw_result, snapshot_path): the header when the
\* file did not exist, then one row.  (The timestamp column is left out.)
log_reading(file, p, raw, path) ==
    [exists |-> TRUE,
     rows |-> (IF file.exists THEN file.rows ELSE <<HeaderRow>>)
              \o <<ReadingRow(p, path, Flatten(raw))>>]

\* What the with block of log_reading appends to the file as it is then:
\* the header when file_exists was found false, and the row.
appended_rows(file_exists, p, raw, path) ==
    (IF file_exists THEN <<>> ELSE <<HeaderRow>>)
    \o <<ReadingRow(p, path, Flatten(raw))>>

\* (variant: the processed image's path is logged)
LogReading_processed_path ==
    /\ pc = "log"
    /\ log_file' = log_reading(log_file, percentage.val, result.val,
                               processed_path.val)
    /\ calls' = [calls EXCEPT !.log_append = @ + 1]
    /\ pc' = "email"
    /\ UNCHANGED <<aux_vars, frames, result_text, parsed, cfg, image_data, snapshot_saved, result,
                   percentage, processed_path, reported, emails>>

\* main: log_reading(percentage, result, str(snapshot_filename))
LogReading ==
    /\ pc = "log"
    /\ log_file' = log_reading(log_file, percentage.val, result.val,
                               SNAPSHOT_FILE)
    /\ calls' = [calls EXCEPT !.log_append = @ + 1]
    /\ pc' = "email"
    /\ UNCHANGED <<aux_vars, frames, result_text, parsed, cfg, image_data, snapshot_saved, result,
                   percentage, processed_path, reported, emails>>

\* (variant: strictly below the threshold)
is_warning_strict(p) == p < ALERT_THRESHOLD

\* main: is_warning = percentage <= ALERT_THRESHOLD
is_warning(p) == p <= ALERT_THRESHOLD

\* send_alert_email: subject, banner, status text and both bodies follow
\* the is_warning argument.
email_variant(warning) == IF warning THEN "warning" ELSE "ok"

\* How the try block of send_alert_email ends: an exception before
\* send_message has returned (building the message, connecting, STARTTLS,
\* login, send_message itself), an exception after it (QUIT when the with
\* block exits), or no exception.
SmtpOutcomes == {"raised_before_send", "raised_after_send", "sent"}

\* send_message returned: the server has the message.
message_handed(outcome) == outcome \in {"raised_after_send", "sent"}

\* (variant: True whatever happened)
send_returns_always(outcome) == TRUE

\* send_alert_email: `return True` at the end of the try, `return False`
\* in the except clause.
send_returns(outcome) == outcome = "sent"

\* send_alert_email: what it prints before it returns.
send_prints(outcome) ==
    IF outcome = "sent" THEN "email sent" ELSE "Failed to send email"

\* main: send_alert_email(percentage, processed_path, is_warning=...).
\* Every exception is caught inside: the call always returns to main.
SendAlertEmail ==
    /\ pc = "email"
    /\ \E outcome \in SmtpOutcomes :
          emails' = Append(emails,
              [percentage |-> percentage.val,
               snapshot_path |-> processed_path.val,
               image |-> frames.processed_file,
               variant |-> email_variant(is_warning(percentage.val)),
               handed |-> message_handed(outcome),
               printed |-> send_prints(outcome),
               returned |-> send_returns(outcome)])
    /\ calls' = [calls EXCEPT !.email_send = @ + 1]
    /\ pc' = "done"
    /\ UNCHANGED <<aux_vars, frames, result_text, parsed, cfg, image_data, snapshot_saved, result,
                   percentage, processed_path, reported, log_file>>

Next ==
    \/ GetCameraSnapshot
    \/ MainCheckSnapshot
    \/ AnalyzeOilGauge
    \/ MainCheckResult
    \/ LogReading
    \/ SendAlertEmail

Spec == Init /\ [][Next]_vars

\* main is one thread of blocking calls: whenever a step can be taken and
\* its external call returns or raises, it is taken.
FairSpec == Init /\ [][Next]_vars /\ WF_vars(Next)

\* ------------------------------------------- main, run after run (cron)
MaxRuns == 3

\* oil_snapshot_<timestamp>.jpg of the n-th invocation.
SnapshotOfRun(n) == "oil_snapshot_run" \o ToString(n) \o ".jpg"

\* The response texts of the runs.
RunTexts ==
    { <<>>, <<"n", "o">>, Response18, <<LABEL, "5", "%", "\n">>,
      <<LABEL, "5", "0", "%">>, <<"8", "-", "1", "0", "0", "%">> }

\* How a run went up to main's `if not result`: no snapshot, or the first
\* value returned by analyze_oil_gauge.
RunOutcomes ==
    {[snapshot |-> FALSE]} \cup
    {[snapshot |-> TRUE, result |-> r] :
        r \in {None} \cup {Some(t) : t \in RunTexts}}

\* The percentage main holds when it reaches `if percentage is not None`,
\* None when it returned before.
percentage_of_run(o) ==
    IF ~o.snapshot THEN None
    ELSE IF analysis_failed(o.result) THEN None
    ELSE parse_percentage(o.result.val)

InitRuns ==
    /\ result_text = <<>>
    /\ parsed = Pending
    /\ cfg = [UNIFI_HOST |-> TRUE, UNIFI_API_KEY |-> TRUE, CAMERA_ID |-> TRUE,
              ANTHROPIC_API_KEY |-> TRUE]
    /\ log_file = [exists |-> FALSE, rows |-> <<>>]
    /\ Idle
    /\ NotCalled

\* One whole invocation of main, from start to exit, as the log file
\* sees it.
RunMain ==
    /\ runs < MaxRuns
    /\ \E o \in RunOutcomes :
          LET p == percentage_of_run(o)
          IN  /\ log_file' =
                    IF has_percentage(p)
                      THEN log_reading(log_file, p.val, o.result.val,
                                       SnapshotOfRun(runs + 1))
                      ELSE log_file
              /\ history' = Append(history, p)
    /\ runs' = runs + 1
    /\ UNCHANGED <<result_text, parsed, pipeline_vars_but_log, log_call,
                   image_call, glare_call, email_call, script_call, writers>>

NextRuns == RunMain

SpecRuns == InitRuns /\ [][NextRuns]_vars

\* ------------------------------------------- log_reading on its own
MaxRawLen == 3
RawAlphabet == {"a", "\n", "\r"}
RawTexts == SeqsUpTo(RawAlphabet, MaxRawLen)

InitLog ==
    /\ result_text = <<>>
    /\ parsed = Pending
    /\ cfg = [UNIFI_HOST |-> TRUE, UNIFI_API_KEY |-> TRUE, CAMERA_ID |-> TRUE,
              ANTHROPIC_API_KEY |-> TRUE]
    /\ log_file \in {[exists |-> FALSE, rows |-> <<>>],
                     [exists |-> TRUE, rows |-> EarlierLog]}
    /\ Idle
    /\ runs = 0
    /\ history = <<>>
    /\ log_call \in {[done |-> FALSE, percentage |-> 18, raw_result |-> t] :
                        t \in RawTexts}
    /\ image_call = [done |-> FALSE]
    /\ glare_call = [done |-> FALSE]
    /\ email_call = [done |-> FALSE]
    /\ script_call = [done |-> FALSE]
    /\ writers = <<>>

LogReadingAlone ==
    /\ ~log_call.done
    /\ log_file' = log_reading(log_file, log_call.percentage,
                               log_call.raw_result, SNAPSHOT_FILE)
    /\ log_call' = [log_call EXCEPT !.done = TRUE]
    /\ UNCHANGED <<result_text, parsed, pipeline_vars_but_log, runs, history,
                   image_call, glare_call, email_call, script_call, writers>>

NextLog == LogReadingAlone

SpecLog == InitLog /\ [][NextLog]_vars

\* ------------------------------------------- process_image on its own
\* An image is known by its mode and size, and by whether it shows
\* pixels that were not in the decoded picture.
MaxSide == 2
Modes == {"RGB", "RGBA", "L"}
Sides == 1..MaxSide
Images ==
    {[mode |-> m, size |-> <<w, h>>, padded |-> FALSE] :
        m \in Modes, w \in Sides, h \in Sides}

\* crop_box: None, or (left, upper, right, lower).
CropBoxes ==
    {None} \cup
    {Some(<<l, t, r, b>>) :
        l \in 0..1, t \in 0..1, r \in 0..(MaxSide + 1), b \in 0..(MaxSide + 1)}

\* rotate_degrees: quarter turns, for which rotate(expand=True) is exact.
RotateDegrees == {0, 90}

\* The RGBA branch composes on a white RGB image of the same size, the
\* other non-RGB modes go through convert("RGB").
to_rgb(im) ==
    IF im.mode = "RGBA" THEN [im EXCEPT !.mode = "RGB"]
    ELSE IF im.mode # "RGB" THEN [im EXCEPT !.mode = "RGB"]
    ELSE im

\* img.transpose(Image.FLIP_LEFT_RIGHT)
flip_left_right(im) == im

\* img.rotate(rotate_degrees, expand=True)
rotate(im, degrees) ==
    IF degrees % 180 = 90
      THEN [im EXCEPT !.size = <<im.size[2], im.size[1]>>]
      ELSE im

\* (variant: the box is clamped to the image)
crop_clamped(im, box) ==
    LET r == Min({box[3], im.size[1]})
        b == Min({box[4], im.size[2]})
    IN  IF r < box[1] \/ b < box[2]
          THEN [raised |-> TRUE]
          ELSE [raised |-> FALSE,
                im |-> [im EXCEPT !.size = <<r - box[1], b - box[2]>>]]

\* img.crop(crop_box): Pillow raises when right < left or lower < upper
\* and otherwise returns an image of the size of the box, black where the
\* box lies outside the image.
crop(im, box) ==
    IF box[3] < box[1] \/ box[4] < box[2]
      THEN [raised |-> TRUE]
      ELSE [raised |-> FALSE,
            im |-> [im EXCEPT
                      !.size = <<box[3] - box[1], box[4] - box[2]>>,
                      !.padded = \/ box[1] < 0
                                 \/ box[2] < 0
                                 \/ box[3] > im.size[1]
                                 \/ box[4] > im.size[2]]]

\* reduce_glare(img): an array of the image's shape and an image from it.
reduce_glare_image(im) == im

\* ImageEnhance.Brightness(img).enhance(1.3)
enhance_brightness(im) == im

\* ImageEnhance.Contrast(img).enhance(1.4)
enhance_contrast(im) == im

\* ImageEnhance.Sharpness(img).enhance(1.5)
enhance_sharpness(im) == im

\* One entry of the list of the steps done: the image the step was given
\* and the image it made.
Step(op, given, made) ==
    [op |-> op, input |-> given, output |-> made, mode |-> made.mode,
     size |-> made.size]

\* (variant: the crop is taken before the rotation)
step_order_crop_first ==
    <<"rgb", "flip", "crop", "rotate", "reduce_glare", "brightness",
      "contrast", "sharpness">>

\* The statements of process_image between Image.open and img.save, in
\* the order in which they stand.
step_order ==
    <<"rgb", "flip", "rotate", "crop", "reduce_glare", "brightness",
      "contrast", "sharpness">>

\* The condition under which each statement runs.
step_enabled(op, c) ==
    CASE op = "rgb" -> TRUE
      [] op = "flip" -> c.flip_horizontal
      [] op = "rotate" -> c.rotate_degrees # 0
      [] op = "crop" -> ~c.crop_box.none
      [] op = "reduce_glare" -> c.reduce_glare_enabled
      [] op \in {"brightness", "contrast", "sharpness"} -> c.enhance

\* What each statement assigns to img from the img it finds.
apply_step(op, c, im) ==
    CASE op = "rgb" -> [raised |-> FALSE, im |-> to_rgb(im)]
      [] op = "flip" -> [raised |-> FALSE, im |-> flip_left_right(im)]
      [] op = "rotate" ->
            [raised |-> FALSE, im |-> rotate(im, c.rotate_degrees)]
      [] op = "crop" -> crop(im, c.crop_box.val)
      [] op = "reduce_glare" ->
            [raised |-> FALSE, im |-> reduce_glare_image(im)]
      [] op = "brightness" ->
            [raised |-> FALSE, im |-> enhance_brightness(im)]
      [] op = "contrast" -> [raised |-> FALSE, im |-> enhance_contrast(im)]
      [] op = "sharpness" ->
            [raised |-> FALSE, im |-> enhance_sharpness(im)]

\* The statements from the k-th on, img being im.
RECURSIVE run_steps(_, _, _, _)
run_steps(c, k, im, steps) ==
    IF k > Len(step_order) THEN [raised |-> FALSE, im |-> im, steps |-> steps]
    ELSE IF ~step_enabled(step_order[k], c)
      THEN run_steps(c, k + 1, im, steps)
    ELSE LET r == apply_step(step_order[k], c, im)
         IN  IF r.raised THEN [raised |-> TRUE]
             ELSE run_steps(c, k + 1, r.im,
                            Append(steps, Step(step_order[k], im, r.im)))

\* process_image: what it returns, or that it raised, and the steps it
\* went through.  Saving an image without pixels as JPEG raises.
process_image_call(c) ==
    LET r == run_steps(c, 1, c.img, <<Step("open", c.img, c.img)>>)
    IN  IF r.raised THEN [raised |-> TRUE]
        ELSE IF r.im.size[1] = 0 \/ r.im.size[2] = 0
          THEN [raised |-> TRUE]
        ELSE [raised |-> FALSE, im |-> r.im,
              steps |-> Append(r.steps, Step("save", r.im, r.im))]

InitImage ==
    /\ result_text = <<>>
    /\ parsed = Pending
    /\ cfg = [UNIFI_HOST |-> TRUE, UNIFI_API_KEY |-> TRUE, CAMERA_ID |-> TRUE,
              ANTHROPIC_API_KEY |-> TRUE]
    /\ log_file = [exists |-> FALSE, rows |-> <<>>]
    /\ Idle
    /\ runs = 0
    /\ history = <<>>
    /\ log_call = [done |-> FALSE]
    /\ glare_call = [done |-> FALSE]
    /\ email_call = [done |-> FALSE]
    /\ script_call = [done |-> FALSE]
    /\ writers = <<>>
    /\ image_call \in
          {[done |-> FALSE, img |-> i, flip_horizontal |-> f,
            rotate_degrees |-> d, crop_box |-> c, enhance |-> e,
            reduce_glare_enabled |-> g] :
              i \in Images, f \in BOOLEAN, d \in RotateDegrees,
              c \in CropBoxes, e \in BOOLEAN, g \in BOOLEAN}

ProcessImage ==
    /\ ~image_call.done
    /\ image_call' = [done |-> TRUE, img |-> image_call.img,
                      flip_horizontal |-> image_call.flip_horizontal,
                      rotate_degrees |-> image_call.rotate_degrees,
                      crop_box |-> image_call.crop_box,
                      enhance |-> image_call.enhance,
                      reduce_glare_enabled |->
                          image_call.reduce_glare_enabled,
                      out |-> process_image_call(image_call)]
    /\ UNCHANGED <<result_text, parsed, pipeline_vars, runs, history,
                   log_call, glare_call, email_call, script_call, writers>>

NextImage == ProcessImage

SpecImage == InitImage /\ [][NextImage]_vars

\* ------------------------------------------- reduce_glare on its own
\* An 8-bit RGB image one pixel wide: a sequence of rows, top row first,
\* each row one pixel <<r, g, b>>.  (Every step of reduce_glare works on
\* a pixel by its own three values and its row.)
MaxHeight == 5
GLARE_THRESHOLD == 220
Pixels ==
    { <<0, 0, 0>>, <<1, 2, 3>>, <<220, 220, 220>>, <<221, 220, 220>>,
      <<255, 255, 151>>, <<255, 255, 255>> }
GlareImages == UNION {[1..h -> Pixels] : h \in 1..MaxHeight}

\* A value of the float array as a fraction n/d.
Frac(n, d) == [n |-> n, d |-> d]
Times(x, f) == Frac(x.n * f.n, x.d * f.d)

\* (variant: a mean of 220 counts as glare)
bright_mask_at_least(px) == px[1] + px[2] + px[3] >= 3 * GLARE_THRESHOLD

\* np.mean(img_array, axis=2) > 220
bright_mask(px) == px[1] + px[2] + px[3] > 3 * GLARE_THRESHOLD

\* glare_reduction = 0.7
glare_reduction == Frac(7, 10)

\* (variant: the upper half)
top_portion_half(height) == height \div 2

\* top_portion = int(height * 0.4)
top_portion(height) == (4 * height) \div 10

\* (variant: the top rows are brightened)
darken_factor_brighten(y, top) == Frac(115 * top - 15 * y, 100 * top)

\* darken_factor = 0.85 + (0.15 * y / top_portion)
darken_factor(y, top) == Frac(85 * top + 15 * y, 100 * top)

\* np.clip(x, 0, 255).astype(np.uint8): the values are never negative,
\* the cast drops the fraction.
clip_uint8(x) ==
    LET t == x.n \div x.d
    IN  IF t < 0 THEN 0 ELSE IF t > 255 THEN 255 ELSE t

\* reduce_glare(img).  y counts the rows from 0 as the code does.  The
\* float32 products of the code and these fractions give the same byte
\* for every value 0..255 and every image of up to 17 rows.
reduce_glare(img) ==
    LET height == Len(img)
        top == top_portion(height)
    IN  [k \in 1..height |->
          [c \in 1..3 |->
            LET y == k - 1
                v == Frac(img[k][c], 1)
                masked == IF bright_mask(img[k]) THEN Times(v, glare_reduction)
                          ELSE v
                darkened == IF y < top THEN Times(masked, darken_factor(y, top))
                            ELSE masked
            IN  clip_uint8(darkened)]]

InitGlare ==
    /\ result_text = <<>>
    /\ parsed = Pending
    /\ cfg = [UNIFI_HOST |-> TRUE, UNIFI_API_KEY |-> TRUE, CAMERA_ID |-> TRUE,
              ANTHROPIC_API_KEY |-> TRUE]
    /\ log_file = [exists |-> FALSE, rows |-> <<>>]
    /\ Idle
    /\ runs = 0
    /\ history = <<>>
    /\ log_call = [done |-> FALSE]
    /\ image_call = [done |-> FALSE]
    /\ glare_call \in {[done |-> FALSE, img |-> i] : i \in GlareImages}
    /\ email_call = [done |-> FALSE]
    /\ script_call = [done |-> FALSE]
    /\ writers = <<>>

ReduceGlare ==
    /\ ~glare_call.done
    /\ glare_call' = [done |-> TRUE, img |-> glare_call.img,
                      out |-> reduce_glare(glare_call.img)]
    /\ UNCHANGED <<result_text, parsed, pipeline_vars, runs, history,
                   log_call, image_call, email_call, script_call, writers>>

NextGlare == ReduceGlare

SpecGlare == InitGlare /\ [][NextGlare]_vars

\* ----------------------------------------- send_alert_email on its own
EmailPercentages == {0, 20, 25, 26}

\* The is_warning argument: left out by the caller, or given.
IsWarningArgs == {None, Some(TRUE), Some(FALSE)}

\* (variant: without the argument the percentage decides)
is_warning_param_from_percentage(arg, p) ==
    IF arg.none THEN p <= ALERT_THRESHOLD ELSE arg.val

\* def send_alert_email(percentage, snapshot_path, is_warning=False)
is_warning_param(arg, p) == IF arg.none THEN FALSE ELSE arg.val

\* (variant: a username is enough)
login_attempted_username_only(c) == c.SMTP_USERNAME

\* if SMTP_USERNAME and SMTP_PASSWORD: server.login(...)
login_attempted(c) == c.SMTP_USERNAME /\ c.SMTP_PASSWORD

\* What the with block does with the server, in order.
session_commands(c) ==
    <<"connect", "starttls">>
    \o (IF login_attempted(c) THEN <<"login">> ELSE <<>>)
    \o <<"send_message">>

\* Where the try block raises: nowhere, while the message is built, in
\* one of the calls of the session, or at the QUIT of the with block's
\* exit.
FailPoints ==
    {"none", "build", "connect", "starttls", "login", "send_message", "quit"}

\* The commands issued when the session raises at fail_at.  A failure in
\* the with block skips the rest of the block; the exit of the block
\* still says QUIT.  Without a login step a failure at "login" cannot
\* happen.
smtp_session(c, fail_at) ==
    LET cmds == session_commands(c)
        at == {k \in 1..Len(cmds) : cmds[k] = fail_at}
    IN  IF fail_at = "build" THEN [issued |-> <<>>, failed |-> "build"]
        ELSE IF fail_at = "connect"
          THEN [issued |-> <<"connect">>, failed |-> "connect"]
        ELSE IF at # {}
          THEN [issued |-> SubSeq(cmds, 1, Min(at)) \o <<"quit">>,
                failed |-> fail_at]
        ELSE IF fail_at = "quit"
          THEN [issued |-> cmds \o <<"quit">>, failed |-> "quit"]
        ELSE [issued |-> cmds \o <<"quit">>, failed |-> "none"]

\* How the try block ended, in the words of SmtpOutcomes.
smtp_outcome(session) ==
    IF session.failed = "none" THEN "sent"
    ELSE IF session.failed = "quit" THEN "raised_after_send"
    ELSE "raised_before_send"

\* send_alert_email(percentage, snapshot_path[, is_warning])
send_alert_email(c, fail_at) ==
    LET session == smtp_session(c, fail_at)
        outcome == smtp_outcome(session)
    IN  [variant |-> email_variant(is_warning_param(c.is_warning,
                                                    c.percentage)),
         attached |-> c.snapshot_exists,
         session |-> session.issued,
         failed |-> session.failed,
         handed |-> message_handed(outcome),
         printed |-> send_prints(outcome),
         returned |-> send_returns(outcome)]

InitEmail ==
    /\ result_text = <<>>
    /\ parsed = Pending
    /\ cfg = [UNIFI_HOST |-> TRUE, UNIFI_API_KEY |-> TRUE, CAMERA_ID |-> TRUE,
              ANTHROPIC_API_KEY |-> TRUE]
    /\ log_file = [exists |-> FALSE, rows |-> <<>>]
    /\ Idle
    /\ runs = 0
    /\ history = <<>>
    /\ log_call = [done |-> FALSE]
    /\ image_call = [done |-> FALSE]
    /\ glare_call = [done |-> FALSE]
    /\ script_call = [done |-> FALSE]
    /\ writers = <<>>
    /\ email_call \in
          {[done |-> FALSE, percentage |-> p, is_warning |-> w,
            snapshot_exists |-> e, SMTP_USERNAME |-> u, SMTP_PASSWORD |-> pw] :
              p \in EmailPercentages, w \in IsWarningArgs, e \in BOOLEAN,
              u \in BOOLEAN, pw \in BOOLEAN}

SendAlertEmailAlone ==
    /\ ~email_call.done
    /\ \E fail_at \in FailPoints :
          email_call' = [done |-> TRUE, percentage |-> email_call.percentage,
                         is_warning |-> email_call.is_warning,
                         snapshot_exists |-> email_call.snapshot_exists,
                         SMTP_USERNAME |-> email_call.SMTP_USERNAME,
                         SMTP_PASSWORD |-> email_call.SMTP_PASSWORD,
                         out |-> send_alert_email(email_call, fail_at)]
    /\ UNCHANGED <<result_text, parsed, pipeline_vars, runs, history,
                   log_call, image_call, glare_call, script_call, writers>>

NextEmail == SendAlertEmailAlone

SpecEmail == InitEmail /\ [][NextEmail]_vars

\* ---------------------- the test scripts that call analyze_oil_gauge
\* `result, percentage = analyze_oil_gauge(image_data)`: the assignment
\* raises ValueError unless the value has two items.
unpack_two(value) ==
    IF Len(value) = 2
      THEN [raised |-> FALSE, result |-> value[1], percentage |-> value[2]]
      ELSE [raised |-> TRUE, error |-> "ValueError"]

InitScript ==
    /\ result_text = <<>>
    /\ parsed = Pending
    /\ cfg \in {[UNIFI_HOST |-> TRUE, UNIFI_API_KEY |-> TRUE,
                  CAMERA_ID |-> TRUE, ANTHROPIC_API_KEY |-> k] :
                    k \in BOOLEAN}
    /\ log_file = [exists |-> FALSE, rows |-> <<>>]
    /\ Idle
    /\ runs = 0
    /\ history = <<>>
    /\ log_call = [done |-> FALSE]
    /\ image_call = [done |-> FALSE]
    /\ glare_call = [done |-> FALSE]
    /\ email_call = [done |-> FALSE]
    /\ writers = <<>>
    /\ script_call \in {[done |-> FALSE, image_data |-> d] : d \in Bodies}

\* test_saved_image.py, and one turn of the loop of test_consistency.py:
\* the call and the assignment of what it returns.
RunTestScript ==
    /\ ~script_call.done
    /\ \E reply \in InferenceReplies :
          LET r == analyze_oil_gauge(cfg.ANTHROPIC_API_KEY,
                                     script_call.image_data, reply)
          IN  script_call' =
                IF r.raised
                  THEN [done |-> TRUE, image_data |-> script_call.image_data,
                        call_raised |-> TRUE]
                  ELSE [done |-> TRUE, image_data |-> script_call.image_data,
                        call_raised |-> FALSE, returned |-> r.value,
                        out |-> unpack_two(r.value)]
    /\ UNCHANGED <<result_text, parsed, pipeline_vars, runs, history,
                   log_call, image_call, glare_call, email_call, writers>>

NextScript == RunTestScript

SpecScript == InitScript /\ [][NextScript]_vars

\* ------------------------------- invocations of log_reading at once
\* Each invocation is a process of its own with its own file_exists; the
\* file is the one LOG_FILE.  The steps of one invocation: the existence
\* check, the open in append mode (which creates the file), and the write
\* of what the csv writer buffered, when the with block closes the file.
MaxWriters == 2
WriterPercentages == {18, 50}

InitWriters ==
    /\ result_text = <<>>
    /\ parsed = Pending
    /\ cfg = [UNIFI_HOST |-> TRUE, UNIFI_API_KEY |-> TRUE, CAMERA_ID |-> TRUE,
              ANTHROPIC_API_KEY |-> TRUE]
    /\ log_file \in {[exists |-> FALSE, rows |-> <<>>],
                     [exists |-> TRUE, rows |-> EarlierLog]}
    /\ Idle
    /\ runs = 0
    /\ history = <<>>
    /\ log_call = [done |-> FALSE]
    /\ image_call = [done |-> FALSE]
    /\ glare_call = [done |-> FALSE]
    /\ email_call = [done |-> FALSE]
    /\ script_call = [done |-> FALSE]
    /\ writers \in [1..MaxWriters ->
                      {[step |-> "check", file_exists |-> FALSE,
                        percentage |-> p] : p \in WriterPercentages}]

\* file_exists = LOG_FILE.exists()
WriterCheck(w) ==
    /\ writers[w].step = "check"
    /\ writers' = [writers EXCEPT ![w].file_exists = log_file.exists,
                                  ![w].step = "open"]
    /\ UNCHANGED <<result_text, parsed, pipeline_vars, runs, history,
                   log_call, image_call, glare_call, email_call, script_call>>

\* open(LOG_FILE, "a", newline="")
WriterOpen(w) ==
    /\ writers[w].step = "open"
    /\ log_file' = [log_file EXCEPT !.exists = TRUE]
    /\ writers' = [writers EXCEPT ![w].step = "write"]
    /\ UNCHANGED <<result_text, parsed, pipeline_vars_but_log, runs, history,
                   log_call, image_call, glare_call, email_call, script_call>>

\* The writerow calls, reaching the file when it is closed.
WriterWrite(w) ==
    /\ writers[w].step = "write"
    /\ log_file' =
          [log_file EXCEPT !.rows =
              @ \o appended_rows(writers[w].file_exists,
                                 writers[w].percentage, Response18,
                                 SnapshotOfRun(w))]
    /\ writers' = [writers EXCEPT ![w].step = "done"]
    /\ UNCHANGED <<result_text, parsed, pipeline_vars_but_log, runs, history,
                   log_call, image_call, glare_call, email_call, script_call>>

NextWriters ==
    \E w \in 1..MaxWriters :
        \/ WriterCheck(w)
        \/ WriterOpen(w)
        \/ WriterWrite(w)

SpecWriters == InitWriters /\ [][NextWriters]_vars

\* The characters at which a reader of text lines ends a line.
LineBreaks == {"\n", "\r"}

\* The lines a row takes in the file: csv.writer writes the field's
\* characters as they are (inside quotes), the file being opened with
\* newline="".
PhysicalLines(row) ==
    1 + Cardinality({i \in 1..Len(row.RawResult) :
                        row.RawResult[i] \in LineBreaks})

\* ------------------------------------------- occurrences, as written
\* What a reader of the text sees, stated over positions and without the
\* matcher: a number t[a..b], a range t[a..b]-t[b+2..d], a label before it.
AllDigits(t, a, b) == a <= b /\ \A m \in a..b : IsDigit(t[m])

\* The number of "N%" with N = t[a..], if one is written at a.
SingleChosen(t, a) ==
    IF ~IsDigit(t[a]) THEN {}
    ELSE {ToInt(t, a, b) :
            b \in {b \in a..(Len(t) - 1) :
                      t[b + 1] = "%" /\ AllDigits(t, a, b)}}

\* The second number of "A-B%" with A = t[a..], if one is written at a.
RangeChosen(t, a) ==
    IF ~IsDigit(t[a]) THEN {}
    ELSE UNION {{ToInt(t, b + 2, d) :
                    d \in {d \in (b + 2)..(Len(t) - 1) :
                              t[d + 1] = "%" /\ AllDigits(t, b + 2, d)}} :
                b \in {b \in a..(Len(t) - 1) :
                          t[b + 1] = "-" /\ AllDigits(t, a, b)}}

\* "Percentage:", optional whitespace, then "N%" or "A-B%", written at i.
LabelledChosen(t, i) ==
    IF t[i] # LABEL THEN {}
    ELSE UNION {SingleChosen(t, a) \cup RangeChosen(t, a) :
                a \in {a \in (i + 1)..Len(t) :
                          \A m \in (i + 1)..(a - 1) : IsSpace(t[m])}}

AllChosen(t) ==
    UNION {LabelledChosen(t, i) \cup RangeChosen(t, i) : i \in 1..Len(t)}

\* ---------------------------------------------------------------- claims
\* C4: when a pattern matches, the value returned is the second number of
\* a range "A-B%" and the number of a single "N%": it is the chosen number
\* of one of the occurrences written in the text, never a lower end.
C4_UpperEndOrSingle ==
    (parsed.done /\ AllChosen(result_text) # {}) =>
        /\ ~parsed.value.none
        /\ parsed.value.val \in AllChosen(result_text)
        /\ (result_text = <<LABEL, "1", "-", "2", "%">> => parsed.value.val = 2)
        /\ (result_text = <<LABEL, "1", "2", "%">> => parsed.value.val = 12)

C4_Witness ==
    /\ parsed.done
    /\ result_text = <<LABEL, "1", "-", "2", "%">>
    /\ parsed.value = Some(2)

\* C5: a text without the label, without a range, holding one number that
\* is directly followed by "%", yields that number.
C5_BareSingleNumber ==
    parsed.done =>
        \A a \in 1..Len(result_text) : \A b \in a..(Len(result_text) - 1) :
            ( /\ \A m \in 1..Len(result_text) :
                    /\ result_text[m] \notin {LABEL, "-"}
                    /\ IsDigit(result_text[m]) <=> m \in a..b
              /\ result_text[b + 1] = "%" )
            => parsed.value = Some(ToInt(result_text, a, b))

\* C6: a text in which neither pattern occurs yields None, not 0.
C6_NoMatchIsNone ==
    (parsed.done /\ AllChosen(result_text) = {}) => parsed.value = None

C6_Witness ==
    /\ parsed.done
    /\ result_text = <<"x", "x", " ", "x">>
    /\ parsed.value = None

\* C7: the value returned is None or an integer in 0..100.
C7_WithinPercentRange ==
    parsed.done => (parsed.value.none \/ parsed.value.val \in 0..100)

\* C8: the leftmost labelled occurrence decides whenever there is one,
\* also after an earlier bare range and before any later occurrence; with
\* no labelled occurrence the leftmost bare range decides.
C8_FirstPatternFirstOccurrence ==
    parsed.done =>
        LET labelled == {i \in 1..Len(result_text) :
                            LabelledChosen(result_text, i) # {}}
            ranges == {a \in 1..Len(result_text) :
                            RangeChosen(result_text, a) # {}}
        IN  /\ \A i \in labelled :
                  (\A j \in labelled : i <= j) =>
                      /\ ~parsed.value.none
                      /\ parsed.value.val \in LabelledChosen(result_text, i)
            /\ labelled = {} =>
                  \A a \in ranges :
                      (\A j \in ranges : a <= j) =>
                          /\ ~parsed.value.none
                          /\ parsed.value.val \in RangeChosen(result_text, a)

C8_Witness ==
    /\ parsed.done
    /\ result_text = <<"1", "-", "2", "%", LABEL, "1", "%">>
    /\ parsed.value = Some(1)

\* This run's rows of the log file.
RowsOfRun ==
    {k \in 1..Len(log_file.rows) :
        /\ log_file.rows[k].kind = "reading"
        /\ log_file.rows[k].Snapshot = SNAPSHOT_FILE}

ParseFailureOnly ==
    /\ percentage = None
    /\ calls.log_append = 0
    /\ calls.email_send = 0
    /\ RowsOfRun = {}
    /\ emails = <<>>
    /\ pc # "raised"
    /\ pc = "done" => reported = "Could not parse percentage from result"

\* C3 as stated: every response without a percentage pattern ends in the
\* report of the parse failure, with no row, no email and no exception.
C3_NoPatternReportsParseFailure ==
    (~result.none /\ AllChosen(result.val) = {}) => ParseFailureOnly

\* C3, amended: the same for every non-empty response without a pattern.
C3_NonEmptyNoPatternReportsParseFailure ==
    (~result.none /\ result.val # <<>> /\ AllChosen(result.val) = {})
        => ParseFailureOnly

C3_Witness ==
    /\ pc = "done"
    /\ result = Some(<<"x", "x", " ", "x">>)
    /\ reported = "Could not parse percentage from result"
    /\ calls.inference = 1

\* C9: after a failed acquisition (get_camera_snapshot returned None or
\* no bytes) the run ends at once: no transform, no inference call, no
\* row, no email.
C9_AcquisitionFailureStops ==
    (pc # "start" /\ (image_data.none \/ image_data.val = <<>>)) =>
        /\ pc \in {"check_snapshot", "done"}
        /\ pc = "done" => reported = "Failed to get camera snapshot"
        /\ ~snapshot_saved
        /\ calls.transform = 0
        /\ calls.inference = 0
        /\ calls.log_append = 0
        /\ calls.email_send = 0
        /\ RowsOfRun = {}
        /\ emails = <<>>

C9_Witness ==
    /\ pc = "done"
    /\ calls.camera_fetch = 1
    /\ image_data = Some(<<>>)
    /\ reported = "Failed to get camera snapshot"

\* C10: a failed transform is a handled outcome: the run ends with a
\* report of the failed stage, no exception leaves main, and no inference
\* call, row or email follows.
C10_TransformFailureHandled ==
    ( /\ calls.transform > 0
      /\ process_image(image_data.val).raised ) =>
        /\ pc = "done"
        /\ reported # ""
        /\ calls.inference = 0
        /\ calls.log_append = 0
        /\ calls.email_send = 0

\* The last row of the log file.
LastRow == log_file.rows[Len(log_file.rows)]

\* C11: when the inference stage gives no usable response (no API key,
\* an exception, an empty content list, an empty text) the run ends as a
\* failed analysis and neither the log nor the email is touched.
C11_NoUsableResponseFails ==
    ( /\ pc \in {"check_result", "done"}
      /\ snapshot_saved
      /\ (result.none \/ result.val = <<>>) ) =>
        /\ percentage = None
        /\ calls.log_append = 0
        /\ calls.email_send = 0
        /\ RowsOfRun = {}
        /\ emails = <<>>
        /\ pc = "done" => reported = "Failed to analyze oil gauge"

C11_Witness ==
    /\ pc = "done"
    /\ calls.inference = 1
    /\ result = Some(<<>>)
    /\ reported = "Failed to analyze oil gauge"

\* C12: the row is in the log before the email is attempted; a failed
\* send leaves it there, is reported and returns False to main; True is
\* returned only when the server has the message.
C12_LogBeforeEmail ==
    /\ (pc = "email" \/ calls.email_send > 0) =>
          /\ calls.log_append = 1
          /\ LastRow.kind = "reading"
          /\ LastRow.Percentage = percentage.val
          /\ LastRow.RawResult = Flatten(result.val)
    /\ \A k \in 1..Len(emails) :
          /\ pc = "done"
          /\ emails[k].returned => emails[k].handed
          /\ ~emails[k].returned => emails[k].printed = "Failed to send email"

C12_Witness ==
    /\ pc = "done"
    /\ Len(emails) = 1
    /\ ~emails[1].returned
    /\ ~emails[1].handed
    /\ calls.log_append = 1
    /\ LastRow.Percentage = percentage.val

C14_AtMostOnce ==
    /\ calls.camera_fetch <= 1
    /\ calls.inference <= 1
    /\ calls.log_append <= 1
    /\ calls.email_send <= 1
    /\ Len(emails) <= 1
    /\ Cardinality(RowsOfRun) <= 1

C14_Witness ==
    /\ pc = "done"
    /\ calls.camera_fetch = 1
    /\ calls.inference = 1
    /\ calls.log_append = 1
    /\ calls.email_send = 1

\* C17 as stated: the path in the row is the processed image's path.
C17_LogsProcessedPath ==
    calls.log_append = 1 => LastRow.Snapshot = processed_path.val

\* C17, amended: the path in the row is the path of the raw snapshot that
\* main saved in this run, not the processed image's path.
C17_LogsSnapshotPath ==
    calls.log_append = 1 =>
        /\ snapshot_saved
        /\ LastRow.kind = "reading"
        /\ LastRow.Snapshot = SNAPSHOT_FILE
        /\ processed_path = Some(PROCESSED_FILE)
        /\ LastRow.Snapshot # processed_path.val

C17_Witness ==
    /\ pc = "done"
    /\ calls.log_append = 1
    /\ LastRow.Snapshot = SNAPSHOT_FILE
    /\ emails[1].snapshot_path = PROCESSED_FILE

\* The runs that parsed a percentage, in run order.
LoggingRuns ==
    SelectSeq([k \in 1..Len(history) |-> k], LAMBDA k : ~history[k].none)

\* C15: after any number of invocations from a missing log file, the file
\* is one header row followed by one row for each run that parsed a
\* percentage, in run order (so that no earlier row was changed or
\* removed); there is no file while no run has logged.
C15_HeaderOnceThenRowPerRun ==
    /\ runs = Len(history)
    /\ log_file.exists <=> LoggingRuns # <<>>
    /\ ~log_file.exists => log_file.rows = <<>>
    /\ log_file.exists =>
          /\ Len(log_file.rows) = 1 + Len(LoggingRuns)
          /\ log_file.rows[1] = HeaderRow
          /\ \A j \in 1..Len(LoggingRuns) :
                /\ log_file.rows[j + 1].kind = "reading"
                /\ log_file.rows[j + 1].Percentage
                      = history[LoggingRuns[j]].val
                /\ log_file.rows[j + 1].Snapshot
                      = SnapshotOfRun(LoggingRuns[j])

C15_Witness ==
    /\ runs = 3
    /\ history = <<Some(18), None, Some(50)>>
    /\ Len(log_file.rows) = 3
    /\ log_file.rows[3].Percentage = 50

\* C16: whatever line breaks the raw text has, the row that log_reading
\* appends takes exactly one line of the file.
C16_OneLinePerReading ==
    log_call.done => PhysicalLines(LastRow) = 1

\* The crop regions that are not a rectangle inside the image im.
InvalidCrop(box, im) ==
    \/ box[3] <= box[1]
    \/ box[4] <= box[2]
    \/ box[1] < 0
    \/ box[2] < 0
    \/ box[3] > im.size[1]
    \/ box[4] > im.size[2]

\* The image the crop is applied to: the decoded one, turned.
Rotated(c) ==
    IF c.rotate_degrees # 0 THEN rotate(to_rgb(c.img), c.rotate_degrees)
    ELSE to_rgb(c.img)

\* C18: process_image fails, and returns no image, for every crop region
\* with right <= left, bottom <= top or an edge outside the rotated
\* image.
C18_InvalidCropRejected ==
    ( /\ image_call.done
      /\ ~image_call.crop_box.none
      /\ InvalidCrop(image_call.crop_box.val, Rotated(image_call)) ) =>
        image_call.out.raised

\* C19: the image process_image returns is RGB; with a crop region its
\* size is (right - left, bottom - top), without one the size of the
\* rotated image; the glare and enhancement steps leave mode and size as
\* they found them.
C19_RgbAndCropSize ==
    (image_call.done /\ ~image_call.out.raised) =>
        LET out == image_call.out
            box == image_call.crop_box
        IN  /\ out.im.mode = "RGB"
            /\ ~box.none =>
                  out.im.size = <<box.val[3] - box.val[1],
                                  box.val[4] - box.val[2]>>
            /\ box.none => out.im.size = Rotated(image_call).size
            /\ \A k \in 2..Len(out.steps) :
                  out.steps[k].op \in {"reduce_glare", "brightness",
                                       "contrast", "sharpness"} =>
                      /\ out.steps[k].size = out.steps[k - 1].size
                      /\ out.steps[k].mode = out.steps[k - 1].mode

C19_Witness ==
    /\ image_call.done
    /\ ~image_call.out.raised
    /\ image_call.img = [mode |-> "RGBA", size |-> <<1, 2>>, padded |-> FALSE]
    /\ image_call.rotate_degrees = 90
    /\ image_call.crop_box = Some(<<0, 0, 2, 1>>)
    /\ image_call.reduce_glare_enabled
    /\ image_call.enhance
    /\ image_call.out.im.size = <<2, 1>>
    /\ image_call.out.im.mode = "RGB"
    /\ ~image_call.out.im.padded

\* C20: one application of reduce_glare gives, at every pixel and
\* channel, a value in 0..255 that is not greater than the input value;
\* the image keeps its rows.
C20_NeverBrighterAndInRange ==
    glare_call.done =>
        /\ Len(glare_call.out) = Len(glare_call.img)
        /\ \A k \in 1..Len(glare_call.img) : \A c \in 1..3 :
              /\ glare_call.out[k][c] \in 0..255
              /\ glare_call.out[k][c] <= glare_call.img[k][c]

C20_Witness ==
    /\ glare_call.done
    /\ glare_call.img = << <<255, 255, 255>>, <<255, 255, 255>>,
                           <<255, 255, 255>>, <<220, 220, 220>>, <<1, 2, 3>> >>
    /\ glare_call.out = << <<151, 151, 151>>, <<165, 165, 165>>,
                           <<178, 178, 178>>, <<220, 220, 220>>, <<1, 2, 3>> >>

\* C21 as stated: the image in the email is the image that was handed to
\* the inference service.
C21_EmailImageIsInferenceImage ==
    \A k \in 1..Len(emails) : emails[k].image = frames.inference

\* C21, amended: the image in the email is the copy of the processed
\* frame that analyze_oil_gauge saved: half its width and half its height,
\* quality 90; the inference service was handed the frame in full size,
\* quality 95.
C21_EmailImageIsHalfSizeCopy ==
    \A k \in 1..Len(emails) :
        /\ ~frames.inference.none
        /\ ~emails[k].image.none
        /\ frames.inference.val.quality = 95
        /\ emails[k].image.val.quality = 90
        /\ emails[k].image.val.size[1] = frames.inference.val.size[1] \div 2
        /\ emails[k].image.val.size[2] = frames.inference.val.size[2] \div 2
        /\ emails[k].image # frames.inference

C21_Witness ==
    /\ pc = "done"
    /\ Len(emails) = 1
    /\ emails[1].handed
    /\ frames.inference.val.size = <<600, 950>>
    /\ emails[1].image.val.size = <<300, 475>>

\* The place of a step in the order of the claim.
ClaimedOrder ==
    <<"open", "rgb", "flip", "rotate", "crop", "reduce_glare", "brightness",
      "contrast", "sharpness", "save">>
Rank(op) == CHOOSE k \in 1..Len(ClaimedOrder) : ClaimedOrder[k] = op
StepsDone(op) ==
    {k \in 1..Len(image_call.out.steps) : image_call.out.steps[k].op = op}

\* C22: the steps of process_image come in the order RGB, flip, rotate,
\* crop, glare, brightness, contrast, sharpness, encoding; a step is
\* there exactly when it is enabled; each step is given what the step
\* before it made, the encoder included; the crop is taken from the
\* rotated image.
C22_FixedStepOrder ==
    (image_call.done /\ ~image_call.out.raised) =>
        LET steps == image_call.out.steps
            c == image_call
        IN  /\ \A k \in 2..Len(steps) :
                  /\ Rank(steps[k - 1].op) < Rank(steps[k].op)
                  /\ steps[k].input = steps[k - 1].output
            /\ steps[1].op = "open"
            /\ steps[Len(steps)].op = "save"
            /\ steps[Len(steps)].output = image_call.out.im
            /\ StepsDone("rgb") # {}
            /\ StepsDone("flip") # {} <=> c.flip_horizontal
            /\ StepsDone("rotate") # {} <=> c.rotate_degrees # 0
            /\ StepsDone("crop") # {} <=> ~c.crop_box.none
            /\ StepsDone("reduce_glare") # {} <=> c.reduce_glare_enabled
            /\ \A op \in {"brightness", "contrast", "sharpness"} :
                  StepsDone(op) # {} <=> c.enhance
            /\ \A k \in StepsDone("crop") :
                  /\ steps[k].input.size = Rotated(c).size
                  /\ steps[k].output.padded <=>
                        \/ c.crop_box.val[3] > Rotated(c).size[1]
                        \/ c.crop_box.val[4] > Rotated(c).size[2]

C22_Witness ==
    /\ image_call.done
    /\ ~image_call.out.raised
    /\ image_call.img.size = <<1, 2>>
    /\ image_call.crop_box = Some(<<0, 0, 2, 1>>)
    /\ ~image_call.out.im.padded
    /\ [k \in 1..Len(image_call.out.steps) |-> image_call.out.steps[k].op]
          = ClaimedOrder

\* The mean of the three input values of a pixel is above 220.
MeanAbove220(px) == 3 * 220 < px[1] + px[2] + px[3]

\* The rows of the band, counted from 0: y < floor(0.4 * height).
InBand(y, height) == 10 * (y + 1) <= 4 * height

\* C23: a pixel is glare exactly when the mean of its three input values
\* is above 220; below the top band a glare pixel comes out as 0.7 times
\* its input in every channel (the fraction dropped) and any other pixel
\* comes out unchanged, whatever the pixels around it.
C23_GlareIffMeanAbove220 ==
    glare_call.done =>
        \A k \in 1..Len(glare_call.img) :
            LET px == glare_call.img[k]
            IN  /\ bright_mask(px) <=> MeanAbove220(px)
                /\ ~InBand(k - 1, Len(glare_call.img)) =>
                      \A c \in 1..3 :
                          glare_call.out[k][c] =
                              IF MeanAbove220(px) THEN (7 * px[c]) \div 10
                              ELSE px[c]

C23_Witness ==
    /\ glare_call.done
    /\ glare_call.img = << <<0, 0, 0>>, <<220, 220, 220>>, <<221, 220, 220>> >>
    /\ glare_call.out[2] = <<220, 220, 220>>
    /\ glare_call.out[3] = <<154, 154, 154>>

\* The band of an image of the given height: floor(0.4 * height) rows.
BandRows(height) == Cardinality({y \in 0..(height - 1) : InBand(y, height)})

\* C24: row y of the band is multiplied by 0.85 + 0.15 * y / band, glare
\* or not, on top of the 0.7 of a glare pixel; the rows from the band's
\* end on are as the glare step left them; an image of one or two rows
\* has no band and comes out without any row darkened.
C24_GradientOnlyInBand ==
    glare_call.done =>
        LET height == Len(glare_call.img)
            band == BandRows(height)
        IN  /\ top_portion(height) = band
            /\ \A k \in 1..height : \A c \in 1..3 :
                  LET y == k - 1
                      v == glare_call.img[k][c]
                      n == IF MeanAbove220(glare_call.img[k]) THEN 7 * v
                           ELSE 10 * v
                  IN  glare_call.out[k][c] =
                        IF y < band
                          THEN (n * (85 * band + 15 * y)) \div (1000 * band)
                          ELSE n \div 10
            /\ band = 0 => \A k \in 1..height : \A c \in 1..3 :
                  glare_call.out[k][c] =
                      IF MeanAbove220(glare_call.img[k])
                        THEN (7 * glare_call.img[k][c]) \div 10
                        ELSE glare_call.img[k][c]

C24_Witness ==
    /\ glare_call.done
    /\ glare_call.img = << <<220, 220, 220>>, <<221, 220, 220>>,
                           <<220, 220, 220>>, <<1, 2, 3>>, <<255, 255, 255>> >>
    /\ glare_call.out = << <<187, 187, 187>>, <<143, 142, 142>>,
                           <<220, 220, 220>>, <<1, 2, 3>>, <<178, 178, 178>> >>

\* The places of a command in the session of the call.
Issued(cmd) ==
    {k \in 1..Len(email_call.out.session) : email_call.out.session[k] = cmd}

\* C25: in every session STARTTLS is said before any login and before
\* the message is sent; there is a login only when a username and a
\* password are both set, and then always; a failed STARTTLS or login
\* ends the session without the message being sent.
C25_StartTlsFirstLoginGuardsSend ==
    email_call.done =>
        /\ \A k \in Issued("login") \cup Issued("send_message") :
              \E j \in Issued("starttls") : j < k
        /\ Issued("login") # {} =>
              email_call.SMTP_USERNAME /\ email_call.SMTP_PASSWORD
        /\ ( /\ email_call.SMTP_USERNAME
              /\ email_call.SMTP_PASSWORD
              /\ Issued("send_message") # {} ) => Issued("login") # {}
        /\ \A k \in Issued("send_message") : \A j \in Issued("login") : j < k
        /\ email_call.out.failed \in {"starttls", "login"} =>
              /\ Issued("send_message") = {}
              /\ ~email_call.out.handed
              /\ ~email_call.out.returned

C25_Witness ==
    /\ email_call.done
    /\ email_call.out.failed = "login"
    /\ email_call.out.session = <<"connect", "starttls", "login", "quit">>
    /\ ~email_call.out.returned

C26_ReturnsTwoItems ==
    (script_call.done /\ ~script_call.call_raised) =>
        /\ Len(script_call.returned) = 2
        /\ ~script_call.out.raised

\* C27: a percentage of 0 is a reading: "Percentage: 0%" and a range
\* that ends in 0 give a row with 0 and the warning email; a run that had
\* an analysis and neither logged nor notified had no percentage.
C27_ZeroIsAReading ==
    /\ ( /\ pc \in {"check_result", "log", "email", "done"}
          /\ result \in {Some(<<LABEL, " ", "0", "%">>),
                          Some(<<"5", "-", "0", "%">>)} ) =>
            percentage = Some(0)
    /\ (pc = "done" /\ percentage = Some(0)) =>
          /\ calls.log_append = 1
          /\ Cardinality(RowsOfRun) = 1
          /\ LastRow.Percentage = 0
          /\ Len(emails) = 1
          /\ emails[1].percentage = 0
          /\ emails[1].variant = "warning"
    /\ ( /\ pc = "done"
          /\ ~analysis_failed(result)
          /\ (calls.log_append = 0 \/ calls.email_send = 0) ) =>
            percentage = None

C27_Witness ==
    /\ pc = "done"
    /\ result = Some(<<LABEL, " ", "0", "%">>)
    /\ percentage = Some(0)
    /\ LastRow.Percentage = 0
    /\ emails[1].variant = "warning"

\* The header rows of the log file.
HeaderRows ==
    {k \in 1..Len(log_file.rows) : log_file.rows[k].kind = "header"}

\* C28: when the overlapping invocations have all ended, the log has one
\* header row, the first row, and one row for each of their readings.
C28_OneHeaderUnderOverlap ==
    (\A w \in 1..Len(writers) : writers[w].step = "done") =>
        /\ HeaderRows = {1}
        /\ \A w \in 1..Len(writers) :
              Cardinality({k \in 1..Len(log_file.rows) :
                  /\ log_file.rows[k].kind = "reading"
                  /\ log_file.rows[k].Snapshot = SnapshotOfRun(w)
                  /\ log_file.rows[k].Percentage = writers[w].percentage})
                = 1

\* The four ends of a run: main has returned after one of the reports.
AcquisitionFailed == pc = "done" /\ reported = "Failed to get camera snapshot"
AnalysisFailed == pc = "done" /\ reported = "Failed to analyze oil gauge"
ParsedAbsent ==
    pc = "done" /\ reported = "Could not parse percentage from result"
LoggedAndNotified ==
    pc = "done" /\ calls.log_append = 1 /\ calls.email_send = 1

\* C30: every run of main comes to one of the four ends: acquisition
\* failed, analysis failed, no percentage parsed, logged and notified.
C30_EventuallyOneOfFourOutcomes ==
    <>(AcquisitionFailed \/ AnalysisFailed \/ ParsedAbsent
         \/ LoggedAndNotified)
====
